---- MODULE Spec2Model ----
(***************************************************************************)
(* Verification model of the punctuation-restoration data pipeline:        *)
(*   - Sequence Chunker   (src/split_long_examples.py)                     *)
(*   - Label Aligner      (src/parsers/tsv_parser.py, src/enums.py)        *)
(*   - Text Normalizer and Document Router                                 *)
(*                        (src/converters/json_converter.py)               *)
(*   - Dataset Splitter   (src/converters/pandas_converter.py)             *)
(* Every component is a batch transform; each gets its own specification   *)
(* (SpecChunk, SpecTsv, SpecJson, SpecRoute, SpecSplit) over its own       *)
(* variables, the variables of the other components staying idle.          *)
(* Python strings that are inspected character by character are modelled   *)
(* as sequences of one-character strings.                                  *)
(***************************************************************************)
EXTENDS Integers, Sequences, FiniteSets, TLC

\* ------------------------------------------------------------------------
\* Generic helpers
\* ------------------------------------------------------------------------

\* All sequences over S of length 0..n
SeqsUpTo(S, n) == UNION {[1..k -> S] : k \in 0..n}

RECURSIVE SumSeq(_)
SumSeq(s) == IF s = <<>> THEN 0 ELSE Head(s) + SumSeq(Tail(s))

\* Python s[k:] for 0 <= k
DropFirst(s, k) == IF k >= Len(s) THEN <<>> ELSE SubSeq(s, k + 1, Len(s))

\* Python s[:k] for 0 <= k
TakeFirst(s, k) == IF k >= Len(s) THEN s ELSE SubSeq(s, 1, k)

Min(a, b) == IF a <= b THEN a ELSE b
Max(a, b) == IF a >= b THEN a ELSE b

\* ========================================================================
\* Sequence Chunker: DataSplitter._split_long_examples
\* ========================================================================

\* --- bounds of the chunker model
MaxRows == 3          \* rows of the input DataFrame
MaxTokLen == 2        \* longest subword tokenization of one word
MinSeqLen == 2        \* smallest max_seq_len tried
MaxSeqLen == 4        \* largest max_seq_len tried
StrideDen == 4        \* strides are the fractions k/StrideDen, 0 < k <= StrideDen

ChunkWords == {"a", "b"}
ChunkLabels == {"B", "."}
ChunkTimes == {"0"}
SentenceIds == {0, 1}

\* one row of the input DataFrame: (words, labels, times, sentence_id)
DataRows == ChunkWords \X ChunkLabels \X ChunkTimes \X SentenceIds

\* The hand-computed example of the chunking property: 10 words of one
\* subword each, max_seq_len 5, stride 0.5
ExampleData == [k \in 1..10 |-> <<"a", IF k % 2 = 0 THEN "." ELSE "B", "0", 0>>]
ExampleTokenizer == [w \in ChunkWords |-> 1]
ExampleSeqLen == 5

VARIABLES
  data,               \* the input DataFrame: sequence of rows
  tokenizer,          \* len(self.tokenizer.tokenize(word)) for every word
  max_seq_len,        \* self.max_seq_len
  stride,             \* self.stride, as the numerator of stride/StrideDen
  groups,             \* sentence ids groupby has still to yield, ascending
  sentence_id,        \* the group being processed
  example,            \* the rows of that group, in row order
  idx,                \* number of rows of example consumed by the inner loop
  words_with_labels,  \* the current window
  words_in_example,
  tokenized_len,
  token_lens,
  chunk_id,
  splitted_data,      \* output rows (word, label, time, <<sentence_id, chunk_id>>)
  chunk_spans,        \* history: for every flush, <<sentence_id, chunk_id, first, last>>,
                      \* the positions in example the flushed window covers
  cpc                 \* position: "idle" | "group" | "word" | "done"

chunkVars == <<data, tokenizer, max_seq_len, stride, groups, sentence_id, example,
               idx, words_with_labels, words_in_example, tokenized_len, token_lens,
               chunk_id, splitted_data, chunk_spans, cpc>>

\* --- Label Aligner, one token pair (TsvParser.convert lines 59-60)
VARIABLES
  in_token,           \* one token of the input text
  expected_token,     \* the token of the expected text at the same position
  label,              \* the label _determine_label returned, NoLabel before the call
  mismatch_logged,    \* whether logger.error was called
  lpc                 \* "idle" | "ready" | "done"

labelVars == <<in_token, expected_token, label, mismatch_logged, lpc>>

\* --- Label Aligner, whole files (TsvParser.convert)
VARIABLES
  in_file,            \* lines of in.tsv, each a string without its newline
  expected_file,      \* lines of expected.tsv
  fa,                 \* fa_transcriptions_directory: whether it is set, whether the
                      \* document's .clntmstmp exists, and its parsed records
  line_no,            \* line pairs zip has yielded so far
  out_file,           \* lines written to the .conll file, without their newlines
  tsv_log,            \* levels of the log records emitted
  tpc                 \* "idle" | "run" | "done" | "crashed"

tsvVars == <<in_file, expected_file, fa, line_no, out_file, tsv_log, tpc>>

\* --- Corpus Loader, text normalization (JsonToTsvConverter._write_output)
VARIABLES
  paths,              \* the documents of one bucket: records [stem, words]
  written,            \* documents of paths already written
  text_intact,        \* the intact text _build_texts returned for the last document
  out_in,             \* lines of {name}_in.tsv, without their newlines
  out_expected,       \* lines of {name}_expected.tsv
  jpc                 \* "idle" | "run" | "done"

jsonVars == <<paths, written, text_intact, out_in, out_expected, jpc>>

\* --- Corpus Loader, Document Router (JsonToTsvConverter._get_json_paths)
VARIABLES
  train_names,        \* ids of the train manifest, in line order
  test_names,         \* ids of the test manifest
  listing,            \* for every data directory, the stems path.glob("*.json") yields, in order
  seed0_perm,         \* the permutation random.seed(0); random.shuffle applies to a
                      \* list as long as the rest bucket
  scanned,            \* candidate files classified so far
  train_paths,
  test_paths,
  rest_paths,
  first_rest,         \* history: the rest bucket the first run returned
  legacy_train_paths, \* what the legacy _get_json_paths returns for the same
  legacy_test_paths,  \* manifests and the same enumeration: path strings
  legacy_rest_paths,
  legacy_done,        \* whether the legacy router has run on the current listing
  second_run,         \* whether _get_json_paths is running for the second time
  rpc                 \* "idle" | "scan" | "done"

routeVars == <<train_names, test_names, listing, seed0_perm, scanned,
               train_paths, test_paths, rest_paths, first_rest, legacy_train_paths,
               legacy_test_paths, legacy_rest_paths, legacy_done, second_run, rpc>>

\* --- Dataset Splitter (DataFrameSplitter.run)
VARIABLES
  conll_file,         \* lines of self.data_file, without their newlines
  split_to_files,     \* self.split_to_files
  read_pos,           \* lines _process_file has read
  file_data,          \* self.data: per sentence the list of (word, tag, space)
  df,                 \* the DataFrame of _process_file: rows (word, tag, space, sentence_id)
  train_data,
  dev_test_data,
  dev_data,
  test_data,
  saved,              \* files written by _save_to_file: <<suffix, rows>>
  draws,              \* the random.sample calls since random.seed(SEED), each
                      \* <<population, k, result>>: the state of the generator
  first_draws,        \* history: draws as the first execution of run left it
  first_split,        \* history: the train, dev and test sentence-id sets of the
                      \* first execution of run
  second_exec,        \* whether run is executing for the second time
  spc                 \* "idle" | "read" | "loaded" | "split1" | "split2" | "done" | "crashed"

splitVars == <<conll_file, split_to_files, read_pos, file_data, df, train_data,
               dev_test_data, dev_data, test_data, saved, draws, first_draws,
               first_split, second_exec, spc>>

\* --- Label Aligner, pause features (TsvParser._calculate_breaks and
\*     TsvParser._provide_breaks_for_expected, each called on its own)
VARIABLES
  transcript,         \* what _parse_transcript returned: records (start, end, word)
  words_and_breaks,   \* the list _calculate_breaks returned, or the argument of
                      \* _provide_breaks_for_expected
  legacy_times,       \* the list the legacy _times_after_tokens returned
  expected_text,      \* the expected tokens given to _provide_breaks_for_expected
  times_text,
  times_indexes,      \* dict: offset in times_text -> break
  index,              \* the search position
  matched,
  bpc                 \* "idle" | "calc" | "legacy" | "compared" | "crashed"
                      \* | "index" | "match" | "returned"

breakVars == <<transcript, words_and_breaks, legacy_times, expected_text, times_text,
               times_indexes, index, matched, bpc>>

\* --- Trainer input (NERTrainer.load_data)
VARIABLES
  train_csv,          \* the rows of the file at train_path: fields words, labels,
                      \* times, sentence_id
  eval_csv,           \* the rows of the file at eval_path
  ner_train_data,     \* what load_data returned
  ner_eval_data,
  npc                 \* "idle" | "start" | "returned"

loadVars == <<train_csv, eval_csv, ner_train_data, ner_eval_data, npc>>

vars == <<chunkVars, labelVars, tsvVars, jsonVars, routeVars, splitVars, breakVars,
          loadVars>>

\* the variables each component leaves alone
notChunk == <<labelVars, tsvVars, jsonVars, routeVars, splitVars, breakVars, loadVars>>
notLabel == <<chunkVars, tsvVars, jsonVars, routeVars, splitVars, breakVars, loadVars>>
notTsv == <<chunkVars, labelVars, jsonVars, routeVars, splitVars, breakVars, loadVars>>
notJson == <<chunkVars, labelVars, tsvVars, routeVars, splitVars, breakVars, loadVars>>
notRoute == <<chunkVars, labelVars, tsvVars, jsonVars, splitVars, breakVars, loadVars>>
notSplit == <<chunkVars, labelVars, tsvVars, jsonVars, routeVars, breakVars, loadVars>>
notBreak == <<chunkVars, labelVars, tsvVars, jsonVars, routeVars, splitVars, loadVars>>
notLoad == <<chunkVars, labelVars, tsvVars, jsonVars, routeVars, splitVars, breakVars>>

NoLabel == <<>>

LabelIdle ==
  /\ in_token = <<>> /\ expected_token = <<>> /\ label = NoLabel
  /\ mismatch_logged = FALSE /\ lpc = "idle"

NoFa == [dir |-> FALSE, present |-> FALSE, records |-> <<>>]

TsvIdle ==
  /\ in_file = <<>> /\ expected_file = <<>> /\ fa = NoFa /\ line_no = 0
  /\ out_file = <<>> /\ tsv_log = <<>> /\ tpc = "idle"

JsonIdle ==
  /\ paths = <<>> /\ written = 0 /\ text_intact = <<>>
  /\ out_in = <<>> /\ out_expected = <<>> /\ jpc = "idle"

RouteIdle ==
  /\ train_names = <<>> /\ test_names = <<>> /\ listing = <<>> /\ seed0_perm = <<>>
  /\ scanned = 0 /\ train_paths = <<>> /\ test_paths = <<>> /\ rest_paths = <<>>
  /\ first_rest = <<>> /\ second_run = FALSE /\ rpc = "idle"
  /\ legacy_train_paths = <<>> /\ legacy_test_paths = <<>> /\ legacy_rest_paths = <<>>
  /\ legacy_done = FALSE

SplitIdle ==
  /\ conll_file = <<>> /\ split_to_files = FALSE /\ read_pos = 0 /\ file_data = <<>>
  /\ df = <<>> /\ train_data = <<>> /\ dev_test_data = <<>> /\ dev_data = <<>>
  /\ test_data = <<>> /\ saved = <<>> /\ draws = <<>> /\ first_draws = <<>>
  /\ first_split = <<>> /\ second_exec = FALSE /\ spc = "idle"

LoadIdle ==
  /\ train_csv = <<>> /\ eval_csv = <<>> /\ ner_train_data = <<>> /\ ner_eval_data = <<>>
  /\ npc = "idle"

BreakIdle ==
  /\ transcript = <<>> /\ words_and_breaks = <<>> /\ legacy_times = <<>>
  /\ expected_text = <<>> /\ times_text = <<>> /\ times_indexes = <<>>
  /\ index = 0 /\ matched = <<>> /\ bpc = "idle"

ChunkIdle ==
  /\ data = <<>> /\ tokenizer = <<>> /\ max_seq_len = 0 /\ stride = 0
  /\ groups = <<>> /\ sentence_id = 0 /\ example = <<>> /\ idx = 0
  /\ words_with_labels = <<>> /\ words_in_example = 0 /\ tokenized_len = 0
  /\ token_lens = <<>> /\ chunk_id = 0 /\ splitted_data = <<>> /\ chunk_spans = <<>>
  /\ cpc = "idle"

\* rows of a DataFrame belonging to one sentence id, in row order
RowsOf(frame, sid) == SelectSeq(frame, LAMBDA r : r[4] = sid)

\* data.groupby("sentence_id") yields the present keys in ascending order
RECURSIVE SortedIds(_)
SortedIds(S) ==
  IF S = {} THEN <<>>
  ELSE LET m == CHOOSE x \in S : \A y \in S : x <= y
       IN <<m>> \o SortedIds(S \ {m})

GroupKeys(frame) == SortedIds({frame[k][4] : k \in 1..Len(frame)})

\* mutation of Offset: the retained suffix starts one row early
OffsetOneEarly(n, s) == Max(0, ((n * s) \div StrideDen) - 1)

\* int(words_in_example * self.stride)
Offset(n, s) == (n * s) \div StrideDen

\* f"{sentence_id}_{chunk_id}": the chunk index is all digits after the last
\* underscore, so the formatted id identifies the pair
ChunkName(sid, cid) == <<sid, cid>>

\* mutation of Tagged: the last row of the window is not emitted
TaggedWithoutLast(window, sid, cid) ==
  [k \in 1..(Len(window) - 1) |->
     <<window[k][1], window[k][2], window[k][3], ChunkName(sid, cid)>>]

\* [(w, l, s, f"{sentence_id}_{chunk_id}") for w, l, s in words_with_labels]
Tagged(window, sid, cid) ==
  [k \in 1..Len(window) |-> <<window[k][1], window[k][2], window[k][3], ChunkName(sid, cid)>>]

\* the condition of line 51
MustFlush(total, wlen, budget) == total + wlen >= budget - 1

\* the window is the last words_in_example rows consumed from example
WindowSpan == <<sentence_id, chunk_id, idx - words_in_example + 1, idx>>

ChunkInit ==
  /\ \/ /\ data \in SeqsUpTo(DataRows, MaxRows)
        /\ tokenizer \in [ChunkWords -> 0..MaxTokLen]
        /\ max_seq_len \in MinSeqLen..MaxSeqLen
        /\ stride \in 1..StrideDen
     \/ /\ data = ExampleData
        /\ tokenizer = ExampleTokenizer
        /\ max_seq_len = ExampleSeqLen
        /\ stride \in 1..StrideDen
  /\ groups = GroupKeys(data)
  /\ sentence_id = 0 /\ example = <<>> /\ idx = 0
  /\ words_with_labels = <<>> /\ words_in_example = 0 /\ tokenized_len = 0
  /\ token_lens = <<>> /\ chunk_id = 0 /\ splitted_data = <<>> /\ chunk_spans = <<>>
  /\ cpc = "group"
  /\ LabelIdle /\ TsvIdle /\ JsonIdle /\ RouteIdle /\ SplitIdle /\ BreakIdle
  /\ LoadIdle

\* for sentence_id, example in data.groupby("sentence_id"): lines 42-47
StartSentence ==
  /\ cpc = "group" /\ groups # <<>>
  /\ sentence_id' = Head(groups)
  /\ groups' = Tail(groups)
  /\ example' = RowsOf(data, Head(groups))
  /\ idx' = 0
  /\ words_with_labels' = <<>>
  /\ words_in_example' = 0
  /\ tokenized_len' = 0
  /\ token_lens' = <<>>
  /\ chunk_id' = 0
  /\ cpc' = "word"
  /\ UNCHANGED <<data, tokenizer, max_seq_len, stride, splitted_data, chunk_spans>>
  /\ UNCHANGED notChunk

\* one iteration of the inner loop that takes the branch of line 51
ProcessWordFlush ==
  /\ cpc = "word" /\ idx < Len(example)
  /\ LET row == example[idx + 1]
         wlen == tokenizer[row[1]]
         offset == Offset(words_in_example, stride)
         kept == DropFirst(words_with_labels, offset)
         kept_lens == DropFirst(token_lens, offset)
     IN /\ MustFlush(tokenized_len, wlen, max_seq_len)
        /\ splitted_data' = splitted_data \o Tagged(words_with_labels, sentence_id, chunk_id)
        /\ chunk_spans' = Append(chunk_spans, WindowSpan)
        /\ chunk_id' = chunk_id + 1
        /\ words_with_labels' = Append(kept, <<row[1], row[2], row[3]>>)
        /\ tokenized_len' = tokenized_len - SumSeq(TakeFirst(token_lens, offset)) + wlen
        /\ token_lens' = Append(kept_lens, wlen)
        /\ words_in_example' = words_in_example - offset + 1
  /\ idx' = idx + 1
  /\ UNCHANGED <<data, tokenizer, max_seq_len, stride, groups, sentence_id, example, cpc>>
  /\ UNCHANGED notChunk

\* one iteration of the inner loop that skips the branch of line 51
ProcessWordKeep ==
  /\ cpc = "word" /\ idx < Len(example)
  /\ LET row == example[idx + 1]
         wlen == tokenizer[row[1]]
     IN /\ ~MustFlush(tokenized_len, wlen, max_seq_len)
        /\ token_lens' = Append(token_lens, wlen)
        /\ tokenized_len' = tokenized_len + wlen
        /\ words_with_labels' = Append(words_with_labels, <<row[1], row[2], row[3]>>)
        /\ words_in_example' = words_in_example + 1
  /\ idx' = idx + 1
  /\ UNCHANGED <<data, tokenizer, max_seq_len, stride, groups, sentence_id, example,
                 chunk_id, splitted_data, chunk_spans, cpc>>
  /\ UNCHANGED notChunk

\* the trailing flush of lines 70-76
FinishSentence ==
  /\ cpc = "word" /\ idx = Len(example)
  /\ splitted_data' = IF tokenized_len >= 0
                      THEN splitted_data \o Tagged(words_with_labels, sentence_id, chunk_id)
                      ELSE splitted_data
  /\ chunk_spans' = IF tokenized_len >= 0 THEN Append(chunk_spans, WindowSpan) ELSE chunk_spans
  /\ cpc' = "group"
  /\ UNCHANGED <<data, tokenizer, max_seq_len, stride, groups, sentence_id, example, idx,
                 words_with_labels, words_in_example, tokenized_len, token_lens, chunk_id>>
  /\ UNCHANGED notChunk

\* return pd.DataFrame(splitted_data, ...): lines 78-80
ReturnSplitted ==
  /\ cpc = "group" /\ groups = <<>>
  /\ cpc' = "done"
  /\ UNCHANGED <<data, tokenizer, max_seq_len, stride, groups, sentence_id, example, idx,
                 words_with_labels, words_in_example, tokenized_len, token_lens, chunk_id,
                 splitted_data, chunk_spans>>
  /\ UNCHANGED notChunk

ChunkNext ==
  \/ StartSentence
  \/ ProcessWordFlush
  \/ ProcessWordKeep
  \/ FinishSentence
  \/ ReturnSplitted

SpecChunk == ChunkInit /\ [][ChunkNext]_vars

\* ------------------------------------------------------------------------
\* Properties of the Sequence Chunker
\* ------------------------------------------------------------------------

\* drop the chunk id column
Untag(rows) == [k \in 1..Len(rows) |-> <<rows[k][1], rows[k][2], rows[k][3]>>]

\* output rows of one sentence / of one chunk, in emission order
OutOfSentence(sid) == SelectSeq(splitted_data, LAMBDA r : r[4][1] = sid)
OutOfChunk(sid, cid) == SelectSeq(splitted_data, LAMBDA r : r[4] = ChunkName(sid, cid))

\* subword length of a sequence of rows
SubwordLen(rows) == SumSeq([k \in 1..Len(rows) |-> tokenizer[rows[k][1]]])

\* chunk indices that occur in the output for a sentence
ChunkIdsPresent(sid) == {splitted_data[k][4][2] : k \in {j \in 1..Len(splitted_data) : splitted_data[j][4][1] = sid}}

SpanLen(sp) == sp[4] - sp[3] + 1

\* spans k and k+1 are consecutive chunks of the same sentence
ConsecutiveSpans(k) ==
  /\ k \in 1..(Len(chunk_spans) - 1)
  /\ chunk_spans[k][1] = chunk_spans[k + 1][1]

\* number of positions two consecutive chunks have in common
SharedTokens(k) == chunk_spans[k][4] - chunk_spans[k + 1][3] + 1

\* C1: with stride 1.0, when the chunker has returned, the output rows of
\* every sentence, taken in emission order and stripped of the chunk id, are
\* exactly the sentence's input rows: nothing duplicated, dropped or reordered.
C1_DisjointChunksReproduceSentence ==
  (cpc = "done" /\ stride = StrideDen) =>
    \A sid \in SentenceIds : Untag(OutOfSentence(sid)) = Untag(RowsOf(data, sid))

\* a stride-1.0 run in which a sentence longer than the budget came out in
\* at least two non-empty chunks
C1_Witness ==
  /\ cpc = "done" /\ stride = StrideDen
  /\ \E sid \in SentenceIds :
       /\ SubwordLen(RowsOf(data, sid)) > max_seq_len
       /\ Cardinality(ChunkIdsPresent(sid)) >= 2

\* C2 (as claimed): every chunk emitted, for every stride, has a cumulative
\* subword length strictly below max_seq_len.
C2_EveryChunkUnderBudget ==
  \A k \in 1..Len(splitted_data) :
    SubwordLen(OutOfChunk(splitted_data[k][4][1], splitted_data[k][4][2])) < max_seq_len

\* C8 (as claimed): for stride < 1.0 two consecutive chunks of a sentence
\* share exactly floor(window_size * stride) tokens.
C8_OverlapIsFloorOfStride ==
  \A k \in 1..(Len(chunk_spans) - 1) :
    (ConsecutiveSpans(k) /\ stride < StrideDen) =>
      SharedTokens(k) = (SpanLen(chunk_spans[k]) * stride) \div StrideDen

\* C8 (amended): every emitted chunk is the run of input rows its span names;
\* the later of two consecutive chunks starts floor(window_size * stride) rows
\* after the earlier one, so they share window_size - floor(window_size * stride)
\* rows, the trailing rows of the earlier being the leading rows of the later;
\* in the 10-word example (one subword each, max_seq_len 5, stride 0.5) every
\* chunk has 3 rows and consecutive chunks overlap in 2.
C8_OverlapIsWindowMinusFloor ==
  /\ \A k \in 1..Len(chunk_spans) :
       LET sp == chunk_spans[k]
       IN (cpc = "done" \/ sp[1] # sentence_id \/ sp[2] < chunk_id) =>
            Untag(OutOfChunk(sp[1], sp[2])) = SubSeq(Untag(RowsOf(data, sp[1])), sp[3], sp[4])
  /\ \A k \in 1..(Len(chunk_spans) - 1) :
       ConsecutiveSpans(k) =>
         LET n == SpanLen(chunk_spans[k])
             skipped == (n * stride) \div StrideDen
         IN /\ chunk_spans[k + 1][3] = chunk_spans[k][3] + skipped
            /\ chunk_spans[k + 1][4] > chunk_spans[k][4]
            /\ SharedTokens(k) = n - skipped
  /\ (cpc = "done" /\ data = ExampleData /\ max_seq_len = ExampleSeqLen
        /\ tokenizer = ExampleTokenizer /\ 2 * stride = StrideDen) =>
       /\ Len(chunk_spans) = 8
       /\ \A k \in 1..Len(chunk_spans) : SpanLen(chunk_spans[k]) = 3
       /\ \A k \in 1..(Len(chunk_spans) - 1) : SharedTokens(k) = 2

\* a finished sliding-window run with two consecutive chunks, the earlier of
\* 3 rows, that share 2 rows
C8_Witness ==
  /\ cpc = "done" /\ stride < StrideDen
  /\ \E k \in 1..(Len(chunk_spans) - 1) :
       /\ ConsecutiveSpans(k)
       /\ SpanLen(chunk_spans[k]) = 3
       /\ SharedTokens(k) = 2

\* C9 (as claimed): when the chunker has returned, the chunk indices present
\* in the output of every sentence are exactly 0..k-1 for some k >= 1, in
\* emission order; a sentence that never reached the flush threshold has the
\* single chunk 0 holding the whole sentence.
C9_ChunkIdsContiguousFromZero ==
  cpc = "done" =>
    \A sid \in {data[k][4] : k \in 1..Len(data)} :
      /\ \E n \in 1..(Len(data) + 1) : ChunkIdsPresent(sid) = 0..(n - 1)
      /\ \A i, j \in 1..Len(splitted_data) :
           (i < j /\ splitted_data[i][4][1] = sid /\ splitted_data[j][4][1] = sid)
             => splitted_data[i][4][2] <= splitted_data[j][4][2]
      /\ (\A k \in 1..Len(chunk_spans) : chunk_spans[k][1] = sid => chunk_spans[k][2] = 0)
           => Untag(OutOfChunk(sid, 0)) = Untag(RowsOf(data, sid))

\* C19: for every stride in (0,1], every budget and every sentence: each
\* emitted chunk is a contiguous run of the sentence's rows in original order;
\* from one chunk of a sentence to the next neither the start position nor
\* the end position decreases; and when the chunker has returned, every row
\* position of every sentence lies in at least one chunk.
C19_ChunksCoverSentence ==
  /\ \A k \in 1..Len(chunk_spans) :
       LET sp == chunk_spans[k]
       IN /\ sp[3] >= 1 /\ sp[4] <= Len(RowsOf(data, sp[1])) /\ sp[3] <= sp[4] + 1
          /\ \E first \in 1..(Len(RowsOf(data, sp[1])) + 1) :
               Untag(OutOfChunk(sp[1], sp[2]))
                 = SubSeq(Untag(RowsOf(data, sp[1])), first, first + Len(OutOfChunk(sp[1], sp[2])) - 1)
          /\ Untag(OutOfChunk(sp[1], sp[2])) = SubSeq(Untag(RowsOf(data, sp[1])), sp[3], sp[4])
  /\ \A k \in 1..(Len(chunk_spans) - 1) :
       ConsecutiveSpans(k) =>
         /\ chunk_spans[k][2] < chunk_spans[k + 1][2]
         /\ chunk_spans[k][3] <= chunk_spans[k + 1][3]
         /\ chunk_spans[k][4] <= chunk_spans[k + 1][4]
  /\ cpc = "done" =>
       \A sid \in SentenceIds :
         \A pos \in 1..Len(RowsOf(data, sid)) :
           \E k \in 1..Len(chunk_spans) :
             /\ chunk_spans[k][1] = sid
             /\ chunk_spans[k][3] <= pos /\ pos <= chunk_spans[k][4]

\* a finished sliding-window run in which a sentence of at least three rows
\* came out in two or more chunks that overlap
C19_Witness ==
  /\ cpc = "done" /\ stride < StrideDen
  /\ \E k \in 1..(Len(chunk_spans) - 1) :
       /\ ConsecutiveSpans(k)
       /\ Len(RowsOf(data, chunk_spans[k][1])) >= 3
       /\ SpanLen(chunk_spans[k]) >= 1
       /\ SharedTokens(k) >= 1
       /\ chunk_spans[k + 1][4] = Len(RowsOf(data, chunk_spans[k][1]))

\* ========================================================================
\* Label Aligner, label determination: TsvParser._determine_label
\* ========================================================================

MaxInLen == 2         \* longest input token tried; expected tokens are up to 3 longer

LabelChars == {"d", "D", "s", "."}

\* src/enums.py: Label.list()
LabelList == { <<"B">>, <<":">>, <<";">>, <<",">>, <<".">>, <<"-">>,
               <<".", ".", ".">>, <<"?">>, <<"!">> }

\* the token pairs of the documented examples
Dog == <<"d", "o", "g">>
Cat == <<"c", "a", "t">>
ExamplePairs == { <<Dog, Dog>>, <<Dog, Dog \o <<".">> >>,
                  <<Dog, Dog \o <<".", ".", ".">> >>, <<Dog, Cat>> }

\* str.lower() on one character of the model's alphabet
LowerChar(c) == IF c = "D" THEN "d" ELSE IF c = "A" THEN "a" ELSE IF c = "H" THEN "h" ELSE c

\* str.lower()
Lower(s) == [k \in 1..Len(s) |-> LowerChar(s[k])]

\* Python s[:-k], k > 0
DropLast(s, k) == IF Len(s) <= k THEN <<>> ELSE SubSeq(s, 1, Len(s) - k)

\* Python s[-k:], k > 0
TakeLast(s, k) == IF Len(s) <= k THEN s ELSE SubSeq(s, Len(s) - k + 1, Len(s))

\* mutation of determine_label: the ellipsis branch compares expected_token[:-2]
determine_label_short_ellipsis(in_tok, exp_tok) ==
  IF in_tok = exp_tok THEN [label |-> <<"B">>, error |-> FALSE]
  ELSE IF in_tok = DropLast(exp_tok, 1) THEN [label |-> TakeLast(exp_tok, 1), error |-> FALSE]
  ELSE IF in_tok = DropLast(exp_tok, 2) /\ TakeLast(exp_tok, 3) = <<".", ".", ".">>
       THEN [label |-> <<".", ".", ".">>, error |-> FALSE]
  ELSE [label |-> <<"B">>, error |-> TRUE]

\* TsvParser._determine_label: the label, and whether logger.error was called
determine_label(in_tok, exp_tok) ==
  IF in_tok = exp_tok THEN [label |-> <<"B">>, error |-> FALSE]
  ELSE IF in_tok = DropLast(exp_tok, 1) THEN [label |-> TakeLast(exp_tok, 1), error |-> FALSE]
  ELSE IF in_tok = DropLast(exp_tok, 3) /\ TakeLast(exp_tok, 3) = <<".", ".", ".">>
       THEN [label |-> <<".", ".", ".">>, error |-> FALSE]
  ELSE [label |-> <<"B">>, error |-> TRUE]

LabelInit ==
  /\ \/ /\ in_token \in SeqsUpTo(LabelChars, MaxInLen)
        /\ expected_token \in SeqsUpTo(LabelChars, MaxInLen + 3)
     \/ \E p \in ExamplePairs : in_token = p[1] /\ expected_token = p[2]
  /\ label = NoLabel
  /\ mismatch_logged = FALSE
  /\ lpc = "ready"
  /\ ChunkIdle /\ TsvIdle /\ JsonIdle /\ RouteIdle /\ SplitIdle /\ BreakIdle
  /\ LoadIdle

\* the body of the token loop of convert: lines 59-60
LabelToken ==
  /\ lpc = "ready"
  /\ LET r == determine_label(in_token, Lower(expected_token))
     IN /\ label' = r.label
        /\ mismatch_logged' = r.error
  /\ lpc' = "done"
  /\ UNCHANGED <<in_token, expected_token>>
  /\ UNCHANGED notLabel

LabelNext == LabelToken

SpecLabel == LabelInit /\ [][LabelNext]_vars

\* ------------------------------------------------------------------------
\* Properties of label determination
\* ------------------------------------------------------------------------

Ellipsis == <<".", ".", ".">>

\* C3: the label written for a token pair is 'B' when the input token equals
\* the lower-cased expected token, the trailing character when the lower-cased
\* expected token is the input token plus one character, '...' when it is the
\* input token plus '...', and 'B' (with an error logged) in every other case;
\* (dog,dog) gives B, (dog,dog.) '.', (dog,dog...) '...', (dog,cat) B.
C3_LabelByCase ==
  lpc = "done" =>
    LET e == Lower(expected_token)
    IN /\ (e = in_token) => (label = <<"B">> /\ ~mismatch_logged)
       /\ \A c \in LabelChars \cup {"o", "g", "c", "a", "t"} :
            (e = Append(in_token, c)) => (label = <<c>> /\ ~mismatch_logged)
       /\ (e = in_token \o Ellipsis) => (label = Ellipsis /\ ~mismatch_logged)
       /\ (/\ e # in_token
           /\ Len(e) # Len(in_token) + 1 \/ SubSeq(e, 1, Len(in_token)) # in_token
           /\ e # in_token \o Ellipsis)
            => (label = <<"B">> /\ mismatch_logged)
       /\ (in_token = Dog /\ expected_token = Dog) => label = <<"B">>
       /\ (in_token = Dog /\ expected_token = Dog \o <<".">>) => label = <<".">>
       /\ (in_token = Dog /\ expected_token = Dog \o Ellipsis) => label = Ellipsis
       /\ (in_token = Dog /\ expected_token = Cat) => label = <<"B">>

\* the ellipsis example has been labelled
C3_Witness ==
  /\ lpc = "done" /\ in_token = Dog /\ expected_token = Dog \o Ellipsis
  /\ label = Ellipsis

\* C4 (as claimed): every label the aligner returns is a member of the
\* PunctuationLabel alphabet; in particular the trailing character returned
\* for "input = expected minus its last character" is a punctuation label.
C4_LabelInAlphabet ==
  lpc = "done" => label \in LabelList

\* ========================================================================
\* Label Aligner, file conversion: TsvParser.convert
\* ========================================================================

MaxLines == 2         \* lines per input file
MaxTokens == 2        \* tokens per line
MaxFaWords == 2       \* words per forced-alignment transcript

Tab == "\t"
Space == " "
Whitespace == {" ", "\t", "\n", "\r"}

TsvId == <<"x">>
TsvInTokens == { <<"a">>, <<"b">> }
TsvExpTokens == { <<"A", ".">>, <<"b">> }

\* records (start_ms, end_ms, word) of a parsed transcript
FaRecords == { <<0, 1, <<"a", ".">> >>, <<3, 5, <<"b">> >> }

\* " ".join(tokens)
RECURSIVE JoinTokens(_)
JoinTokens(toks) ==
  IF toks = <<>> THEN <<>>
  ELSE IF Len(toks) = 1 THEN toks[1]
  ELSE toks[1] \o <<Space>> \o JoinTokens(Tail(toks))

\* the lines the model feeds to convert: id<TAB>text, and text
TsvInLines == { TsvId \o <<Tab>> \o JoinTokens(t) : t \in SeqsUpTo(TsvInTokens, MaxTokens) }
TsvExpLines == { JoinTokens(t) : t \in SeqsUpTo(TsvExpTokens, MaxTokens) }

FaChoices ==
  {NoFa, [dir |-> TRUE, present |-> FALSE, records |-> <<>>]}
    \cup {[dir |-> TRUE, present |-> TRUE, records |-> r] : r \in SeqsUpTo(FaRecords, MaxFaWords)}

\* str.strip()
RECURSIVE LStrip(_)
LStrip(s) == IF s # <<>> /\ Head(s) \in Whitespace THEN LStrip(Tail(s)) ELSE s

RECURSIVE RStrip(_)
RStrip(s) ==
  IF s # <<>> /\ s[Len(s)] \in Whitespace THEN RStrip(SubSeq(s, 1, Len(s) - 1)) ELSE s

Strip(s) == RStrip(LStrip(s))

\* str.split(sep) with a one-character separator: always at least one part
RECURSIVE Split(_, _)
Split(s, sep) ==
  IF \A k \in 1..Len(s) : s[k] # sep THEN <<s>>
  ELSE LET p == CHOOSE k \in 1..Len(s) : s[k] = sep /\ \A j \in 1..(k - 1) : s[j] # sep
       IN <<SubSeq(s, 1, p - 1)>> \o Split(SubSeq(s, p + 1, Len(s)), sep)

\* str(int)
DigitChars == <<"0", "1", "2", "3", "4", "5", "6", "7", "8", "9">>

RECURSIVE NatStr(_)
NatStr(n) == IF n < 10 THEN <<DigitChars[n + 1]>> ELSE NatStr(n \div 10) \o <<DigitChars[(n % 10) + 1]>>

IntStr(n) == IF n < 0 THEN <<"-">> \o NatStr(0 - n) ELSE NatStr(n)

\* str.find(sub, start): the lowest 0-based offset >= start, or -1
Find(text, sub, start) ==
  LET hits == {i \in start..(Len(text) - Len(sub)) : SubSeq(text, i + 1, i + Len(sub)) = sub}
  IN IF hits = {} THEN -1 ELSE CHOOSE i \in hits : \A j \in hits : i <= j

\* TsvParser._calculate_breaks on a non-empty parsed transcript
calculate_breaks(records) ==
  [k \in 1..Len(records) |->
     IF k < Len(records) THEN <<records[k][3], records[k + 1][1] - records[k][2]>>
     ELSE <<records[k][3], 0>>]

\* the first loop of _provide_breaks_for_expected: times_text after k words
RECURSIVE TimesText(_, _)
TimesText(wb, k) == IF k = 0 THEN <<>> ELSE TimesText(wb, k - 1) \o Lower(wb[k][1])

\* times_indexes as the set of its keys, and the value of a key (a later word
\* at the same offset overwrites the earlier one)
TimesKeys(wb) == {Len(TimesText(wb, k - 1)) : k \in 1..Len(wb)}

TimesAt(wb, off) ==
  LET ks == {k \in 1..Len(wb) : Len(TimesText(wb, k - 1)) = off}
  IN wb[CHOOSE k \in ks : \A j \in ks : j <= k][2]

\* the second loop of _provide_breaks_for_expected, from search position pos
RECURSIVE MatchFrom(_, _, _)
MatchFrom(wb, expected, pos) ==
  IF expected = <<>> THEN <<>>
  ELSE LET found_index == Find(TimesText(wb, Len(wb)), Lower(Head(expected)), pos)
       IN IF found_index < 0 THEN <<-1>> \o MatchFrom(wb, Tail(expected), pos)
          ELSE IF found_index \in TimesKeys(wb)
               THEN <<TimesAt(wb, found_index)>> \o MatchFrom(wb, Tail(expected), found_index)
               ELSE <<-1>> \o MatchFrom(wb, Tail(expected), pos)

\* TsvParser._provide_breaks_for_expected
provide_breaks_for_expected(wb, expected) == MatchFrom(wb, expected, 0)

\* mutation of ConllLines: labelling stops at the first mismatching position
ConllLinesStopAtMismatch(in_toks, exp_toks, with_fa, breaks) ==
  LET n == Min(Len(in_toks), Len(exp_toks))
      bad == {k \in 1..n : determine_label(in_toks[k], Lower(exp_toks[k])).error}
      upto == IF bad = {} THEN n ELSE (CHOOSE k \in bad : \A j \in bad : k <= j) - 1
  IN [k \in 1..upto |->
        in_toks[k] \o <<Tab>> \o determine_label(in_toks[k], Lower(exp_toks[k])).label
          \o (IF with_fa THEN <<Tab>> \o IntStr(breaks[k]) ELSE <<>>)]

\* the token loop of convert, lines 56-65: the lines written for one line pair
ConllLines(in_toks, exp_toks, with_fa, breaks) ==
  [k \in 1..Min(Len(in_toks), Len(exp_toks)) |->
     in_toks[k] \o <<Tab>> \o determine_label(in_toks[k], Lower(exp_toks[k])).label
       \o (IF with_fa THEN <<Tab>> \o IntStr(breaks[k]) ELSE <<>>)]

\* the logger.error calls of the token loop
LabelErrors(in_toks, exp_toks) ==
  SelectSeq([k \in 1..Min(Len(in_toks), Len(exp_toks)) |->
               IF determine_label(in_toks[k], Lower(exp_toks[k])).error THEN "error" ELSE "none"],
            LAMBDA e : e = "error")

\* the line pair zip yields next, stripped (lines 36-37)
CurIn == Strip(in_file[line_no + 1])
CurExpected == Strip(expected_file[line_no + 1])
MoreLines == line_no < Len(in_file) /\ line_no < Len(expected_file)

\* line 38 unpacks exactly two fields
InFields == Split(CurIn, Tab)
InText == InFields[2]
InTokens == Split(InText, Space)
ExpTokens == Split(CurExpected, Space)

TsvInit ==
  /\ in_file \in SeqsUpTo(TsvInLines, MaxLines)
  /\ expected_file \in SeqsUpTo(TsvExpLines, MaxLines)
  /\ fa \in FaChoices
  /\ line_no = 0
  /\ out_file = <<>>
  /\ tsv_log = <<>>
  /\ tpc = "run"
  /\ ChunkIdle /\ LabelIdle /\ JsonIdle /\ RouteIdle /\ SplitIdle /\ BreakIdle
  /\ LoadIdle

\* one iteration of the loop of line 33 that reaches the token loop
ConvertLine ==
  /\ tpc = "run" /\ MoreLines
  /\ Len(InFields) = 2
  /\ Len(InTokens) = Len(ExpTokens)
  /\ fa.dir => (fa.present /\ fa.records # <<>>)
  /\ LET breaks == IF fa.dir
                    THEN provide_breaks_for_expected(calculate_breaks(fa.records), ExpTokens)
                    ELSE <<>>
     IN out_file' = out_file \o ConllLines(InTokens, ExpTokens, fa.dir, breaks) \o << <<>> >>
  /\ tsv_log' = tsv_log \o LabelErrors(InTokens, ExpTokens)
  /\ line_no' = line_no + 1
  /\ UNCHANGED <<in_file, expected_file, fa, tpc>>
  /\ UNCHANGED notTsv

\* mutation of SkipLine: the skipped line pair still terminates a sentence
SkipLineWritesBlank ==
  /\ tpc = "run" /\ MoreLines
  /\ Len(InFields) = 2
  /\ Len(InTokens) # Len(ExpTokens)
  /\ tsv_log' = Append(tsv_log, "warning")
  /\ out_file' = Append(out_file, <<>>)
  /\ line_no' = line_no + 1
  /\ UNCHANGED <<in_file, expected_file, fa, tpc>>
  /\ UNCHANGED notTsv

\* one iteration that fails the assertion of line 41: warning and continue
SkipLine ==
  /\ tpc = "run" /\ MoreLines
  /\ Len(InFields) = 2
  /\ Len(InTokens) # Len(ExpTokens)
  /\ tsv_log' = Append(tsv_log, "warning")
  /\ line_no' = line_no + 1
  /\ UNCHANGED <<in_file, expected_file, fa, out_file, tpc>>
  /\ UNCHANGED notTsv

\* one iteration that raises: the unpacking of line 38 (ValueError), a missing
\* transcript (FileNotFoundError) or an empty one (IndexError at line 106)
ConvertRaises ==
  /\ tpc = "run" /\ MoreLines
  /\ \/ Len(InFields) # 2
     \/ /\ Len(InFields) = 2
        /\ Len(InTokens) = Len(ExpTokens)
        /\ fa.dir /\ (~fa.present \/ fa.records = <<>>)
  /\ tpc' = "crashed"
  /\ line_no' = line_no + 1
  /\ UNCHANGED <<in_file, expected_file, fa, out_file, tsv_log>>
  /\ UNCHANGED notTsv

\* zip is exhausted: the output file is closed
ConvertDone ==
  /\ tpc = "run" /\ ~MoreLines
  /\ tpc' = "done"
  /\ UNCHANGED <<in_file, expected_file, fa, line_no, out_file, tsv_log>>
  /\ UNCHANGED notTsv

TsvNext ==
  \/ ConvertLine
  \/ SkipLine
  \/ ConvertRaises
  \/ ConvertDone

SpecTsv == TsvInit /\ [][TsvNext]_vars

\* ------------------------------------------------------------------------
\* Properties of the file conversion
\* ------------------------------------------------------------------------

\* neither equal, nor equal minus one character, nor equal minus '...'
IsMismatch(in_tok, e) ==
  /\ e # in_tok
  /\ ~\E k \in 1..Len(e) : Len(e) = Len(in_tok) + 1 /\ e = Append(in_tok, e[k]) /\ k = Len(e)
  /\ e # in_tok \o Ellipsis

\* the label the alignment rules prescribe for a token pair
PrescribedLabel(in_tok, e) ==
  IF e = in_tok \/ IsMismatch(in_tok, e) THEN <<"B">>
  ELSE IF e = in_tok \o Ellipsis THEN Ellipsis
  ELSE <<e[Len(e)]>>

\* line is "word<TAB>label" or "word<TAB>label<TAB>..."
IsConllLine(line, word, lab) ==
  LET head == word \o <<Tab>> \o lab
  IN /\ TakeFirst(line, Len(head)) = head
     /\ Len(line) >= Len(head)
     /\ Len(line) > Len(head) => line[Len(head) + 1] = Tab

FaUnusable == fa.dir /\ (~fa.present \/ fa.records = <<>>)

\* C10: a step of convert on a line pair with equal token counts raises only
\* when the forced-alignment transcript is missing or empty, never because of
\* a label mismatch; otherwise it appends to the output exactly one line per
\* token, in token order, then one blank line; a mismatching position carries
\* 'B' and every other position, also after a mismatch, its prescribed label.
C10_MismatchNeverAborts ==
  [][ (tpc = "run" /\ MoreLines /\ Len(InFields) = 2 /\ Len(InTokens) = Len(ExpTokens)) =>
        LET n == Len(InTokens)
            base == Len(out_file)
        IN /\ (tpc' = "crashed") <=> FaUnusable
           /\ ~FaUnusable =>
                /\ tpc' = "run"
                /\ Len(out_file') = base + n + 1
                /\ SubSeq(out_file', 1, base) = out_file
                /\ out_file'[base + n + 1] = <<>>
                /\ \A k \in 1..n :
                     IsConllLine(out_file'[base + k], InTokens[k],
                                 PrescribedLabel(InTokens[k], Lower(ExpTokens[k])))
    ]_vars

\* the first line pair "b a" / "A. A." has been converted: the mismatching
\* first position got 'B', the position after it '.'
C10_Witness ==
  /\ line_no >= 1 /\ ~fa.dir
  /\ in_file[1] = TsvId \o <<Tab, "b", Space, "a">>
  /\ expected_file[1] = <<"A", ".", Space, "A", ".">>
  /\ Len(out_file) >= 3
  /\ SubSeq(out_file, 1, 3) = << <<"b", Tab, "B">>, <<"a", Tab, ".">>, <<>> >>
  /\ tsv_log # <<>> /\ tsv_log[1] = "error"

\* C11: a step of convert on a line pair that unpacks into id and text and
\* whose input and expected token counts differ writes nothing (no token line,
\* no blank line), leaves the output of the earlier lines as it was, logs one
\* warning, and leaves convert running at the next line pair of the same files.
C11_CountMismatchSkipsLine ==
  [][ (tpc = "run" /\ MoreLines /\ Len(InFields) = 2 /\ Len(InTokens) # Len(ExpTokens)) =>
        /\ out_file' = out_file
        /\ tsv_log' = Append(tsv_log, "warning")
        /\ tpc' = "run"
        /\ line_no' = line_no + 1
        /\ in_file' = in_file /\ expected_file' = expected_file
    ]_vars

\* the first line pair "a b" / "b" was skipped, the second "b" / "b" converted:
\* the output holds the second pair's lines only
C11_Witness ==
  /\ tpc = "done" /\ ~fa.dir /\ line_no = 2
  /\ in_file[1] = TsvId \o <<Tab, "a", Space, "b">>
  /\ expected_file[1] = <<"b">>
  /\ in_file[2] = TsvId \o <<Tab, "b">>
  /\ expected_file[2] = <<"b">>
  /\ tsv_log = <<"warning">>
  /\ out_file = << <<"b", Tab, "B">>, <<>> >>

\* ========================================================================
\* Label Aligner, pause features: TsvParser._calculate_breaks,
\* TsvParser._provide_breaks_for_expected and the legacy _times_after_tokens
\* ========================================================================

\* (word, break) pairs and expected tokens given to _provide_breaks_for_expected;
\* the empty token is what split(" ") yields between two adjacent spaces
BreakPairs == { <<w, g>> : w \in { <<"b">>, <<"A", "b">> }, g \in {0, 2} }
BreakTokens == { <<"b">>, <<"A", "b">>, <<"s">>, <<>> }

\* legacy TsvParser._times_after_tokens, on the parsed records
times_after_tokens(records) ==
  [i \in 1..Len(records) |->
     <<records[i][3], IF i + 1 <= Len(records) THEN records[i + 1][1] - records[i][2] ELSE 0>>]

\* the token the loop of line 135 handles next, and line 136
NextWord == expected_text[Len(matched) + 1]

\* mutation of FoundIndex: the search starts at the beginning of times_text
FoundIndexFromZero == Find(times_text, Lower(NextWord), 0)

FoundIndex == Find(times_text, Lower(NextWord), index)

BreakInit ==
  /\ \/ /\ transcript \in SeqsUpTo(FaRecords, MaxFaWords)
        /\ words_and_breaks = <<>>
        /\ expected_text = <<>>
        /\ bpc = "calc"
     \/ /\ transcript = <<>>
        /\ words_and_breaks \in SeqsUpTo(BreakPairs, MaxFaWords)
        /\ expected_text \in SeqsUpTo(BreakTokens, MaxTokens)
        /\ bpc = "index"
  /\ legacy_times = <<>>
  /\ times_text = <<>>
  /\ times_indexes = <<>>
  /\ index = 0
  /\ matched = <<>>
  /\ ChunkIdle /\ LabelIdle /\ TsvIdle /\ JsonIdle /\ RouteIdle /\ SplitIdle /\ LoadIdle

\* the legacy _times_after_tokens on the transcript
TimesAfterTokens ==
  /\ bpc = "calc"
  /\ legacy_times' = times_after_tokens(transcript)
  /\ bpc' = "canonical"
  /\ UNCHANGED <<transcript, words_and_breaks, expected_text, times_text,
                 times_indexes, index, matched>>
  /\ UNCHANGED notBreak

\* _calculate_breaks on the same transcript
CalculateBreaks ==
  /\ bpc = "canonical" /\ transcript # <<>>
  /\ words_and_breaks' = calculate_breaks(transcript)
  /\ bpc' = "compared"
  /\ UNCHANGED <<transcript, legacy_times, expected_text, times_text,
                 times_indexes, index, matched>>
  /\ UNCHANGED notBreak

\* _calculate_breaks on an empty transcript: data[-1] at line 106 raises IndexError
CalculateBreaksRaises ==
  /\ bpc = "canonical" /\ transcript = <<>>
  /\ bpc' = "crashed"
  /\ UNCHANGED <<transcript, words_and_breaks, legacy_times, expected_text,
                 times_text, times_indexes, index, matched>>
  /\ UNCHANGED notBreak

\* _provide_breaks_for_expected, lines 126-134
BuildIndex ==
  /\ bpc = "index"
  /\ times_text' = TimesText(words_and_breaks, Len(words_and_breaks))
  /\ times_indexes' = [off \in TimesKeys(words_and_breaks) |-> TimesAt(words_and_breaks, off)]
  /\ index' = 0
  /\ matched' = <<>>
  /\ bpc' = "match"
  /\ UNCHANGED <<transcript, words_and_breaks, legacy_times, expected_text>>
  /\ UNCHANGED notBreak

\* lines 136-139: not found
MatchNotFound ==
  /\ bpc = "match" /\ Len(matched) < Len(expected_text)
  /\ FoundIndex < 0
  /\ matched' = Append(matched, -1)
  /\ UNCHANGED <<transcript, words_and_breaks, legacy_times, expected_text,
                 times_text, times_indexes, index, bpc>>
  /\ UNCHANGED notBreak

\* lines 141-143: found at a key of times_indexes
MatchWordStart ==
  /\ bpc = "match" /\ Len(matched) < Len(expected_text)
  /\ FoundIndex >= 0 /\ FoundIndex \in DOMAIN times_indexes
  /\ matched' = Append(matched, times_indexes[FoundIndex])
  /\ index' = FoundIndex
  /\ UNCHANGED <<transcript, words_and_breaks, legacy_times, expected_text,
                 times_text, times_indexes, bpc>>
  /\ UNCHANGED notBreak

\* lines 144-145: found elsewhere
MatchInsideWord ==
  /\ bpc = "match" /\ Len(matched) < Len(expected_text)
  /\ FoundIndex >= 0 /\ FoundIndex \notin DOMAIN times_indexes
  /\ matched' = Append(matched, -1)
  /\ UNCHANGED <<transcript, words_and_breaks, legacy_times, expected_text,
                 times_text, times_indexes, index, bpc>>
  /\ UNCHANGED notBreak

\* line 147
ReturnMatched ==
  /\ bpc = "match" /\ Len(matched) = Len(expected_text)
  /\ bpc' = "returned"
  /\ UNCHANGED <<transcript, words_and_breaks, legacy_times, expected_text,
                 times_text, times_indexes, index, matched>>
  /\ UNCHANGED notBreak

BreakNext ==
  \/ TimesAfterTokens
  \/ CalculateBreaks
  \/ CalculateBreaksRaises
  \/ BuildIndex
  \/ MatchNotFound
  \/ MatchWordStart
  \/ MatchInsideWord
  \/ ReturnMatched

SpecBreak == BreakInit /\ [][BreakNext]_vars

\* ------------------------------------------------------------------------
\* Properties of the pause features
\* ------------------------------------------------------------------------

\* C13: every step of the scan of _provide_breaks_for_expected appends exactly
\* one value for the next expected token and never raises. With first the
\* lowest offset >= the search position at which the lower-cased token occurs
\* in the concatenated lower-cased transcript words: the value is the gap of
\* the transcript word starting at first when there is such a word, and -1
\* when the token does not occur or first is not a word start; the search
\* position becomes first in the former case, stays put otherwise, and never
\* decreases. The scan returns when every token has its value, so the result
\* has one value per expected token.
C13_MonotonicScan ==
  [][ (bpc = "match") =>
        LET text == TimesText(words_and_breaks, Len(words_and_breaks))
            StartOf(j) == Len(TimesText(words_and_breaks, j - 1))
        IN IF Len(matched) = Len(expected_text)
           THEN bpc' = "returned" /\ matched' = matched
           ELSE LET tok == Lower(expected_text[Len(matched) + 1])
                    occ == {o \in index..Len(text) :
                              o + Len(tok) <= Len(text) /\ SubSeq(text, o + 1, o + Len(tok)) = tok}
                    first == CHOOSE o \in occ : \A q \in occ : o <= q
                    atStart == occ # {} /\ \E j \in 1..Len(words_and_breaks) : StartOf(j) = first
                IN /\ bpc' = "match"
                   /\ Len(matched') = Len(matched) + 1
                   /\ SubSeq(matched', 1, Len(matched)) = matched
                   /\ IF atStart
                      THEN /\ \E j \in 1..Len(words_and_breaks) :
                                StartOf(j) = first /\ matched'[Len(matched')] = words_and_breaks[j][2]
                           /\ index' = first
                      ELSE /\ matched'[Len(matched')] = -1
                           /\ index' = index
                   /\ index' >= index
    ]_vars

\* transcript "b" (gap 0), "Ab" (gap 2) and expected tokens "Ab", "b": "ab" is
\* found at offset 1, a word start; "b" is then found at offset 2, inside "ab",
\* although a word "b" starts at offset 0
C13_Witness ==
  /\ bpc = "returned"
  /\ words_and_breaks = << << <<"b">>, 0 >>, << <<"A", "b">>, 2 >> >>
  /\ expected_text = << <<"A", "b">>, <<"b">> >>
  /\ matched = <<2, -1>>
  /\ index = 1

\* C20 (as claimed): on every transcript, the empty one included,
\* _calculate_breaks returns, and returns the list the legacy
\* _times_after_tokens returns: one (word, gap) pair per transcript word in
\* order, the gap being the next word's start minus this word's end, and 0 for
\* the last word.
C20_SameGapsAsLegacy ==
  /\ bpc # "crashed"
  /\ bpc = "compared" =>
       /\ words_and_breaks = legacy_times
       /\ Len(words_and_breaks) = Len(transcript)
       /\ \A k \in 1..Len(transcript) :
            /\ words_and_breaks[k][1] = transcript[k][3]
            /\ k < Len(transcript) =>
                 words_and_breaks[k][2] = transcript[k + 1][1] - transcript[k][2]
            /\ k = Len(transcript) => words_and_breaks[k][2] = 0

\* ========================================================================
\* Corpus Loader, Text Normalizer: JsonToTsvConverter._load_json
\* ========================================================================

MaxDocs == 1          \* documents per bucket
MaxWords == 2         \* words per document

\* the one character U+2026 HORIZONTAL ELLIPSIS
HEllipsis == "U+2026"

\* the "word" fields tried: a capital, punctuation inside a word ('.', ',',
\* '...', the horizontal-ellipsis character) and a word of punctuation only
JsonWords == { <<"A">>, <<"a", ".", "b">>, <<"a", ",", "b">>,
               <<"a", ".", ".", ".", "b">>, <<"a", HEllipsis, "b">>, <<"-">> }
JsonPunctuations == { <<>>, <<"-">>, <<".">> }
JsonStem == <<"x">>

\* after punctuation '.' _build_texts adds the space whatever space_after is,
\* so '.' is tried with space_after only
WordDatas ==
  {w \in [word : JsonWords, punctuation : JsonPunctuations, space_after : BOOLEAN] :
     w.punctuation = <<".">> => w.space_after}

\* the 3-token document of the end-to-end example
ExampleDocument ==
  << [word |-> <<"d", "o", "g">>, punctuation |-> <<>>, space_after |-> TRUE],
     [word |-> <<"r", "u", "n", "s">>, punctuation |-> <<".">>, space_after |-> FALSE],
     [word |-> <<"H", "o", "m", "e">>, punctuation |-> <<>>, space_after |-> FALSE] >>

Documents == SeqsUpTo(WordDatas, MaxWords) \cup {ExampleDocument}

\* \w on the model's alphabet
WordChars == {"a", "b", "A", "d", "o", "g", "r", "u", "n", "s", "H", "h", "m", "e", "x"}

\* re.match(r'^[^\w"%]+$', word)
IsNonAlphanumeric(word) ==
  /\ word # <<>>
  /\ \A k \in 1..Len(word) : word[k] \notin WordChars \cup {"\"", "%"}

\* _build_texts, the loop of line 186 over the first k words: text_in, text_exp, text_intact
RECURSIVE build_texts(_, _)
build_texts(words, k) ==
  IF k = 0 THEN [tin |-> <<>>, texp |-> <<>>, intact |-> <<>>]
  ELSE LET prev == build_texts(words, k - 1)
           w == words[k]
           keep == ~IsNonAlphanumeric(w.word)
           hyphen == keep /\ w.punctuation = <<"-">> /\ ~w.space_after
           gap == IF w.space_after \/ w.punctuation # <<>> THEN <<Space>> ELSE <<>>
       IN [tin |-> prev.tin \o (IF keep THEN w.word ELSE <<>>) \o gap,
           texp |-> prev.texp \o (IF keep THEN w.word ELSE <<>>)
                      \o (IF hyphen THEN w.punctuation ELSE <<>>) \o gap,
           intact |-> prev.intact \o w.word \o w.punctuation \o <<Space>>]

\* re.sub(r"[...]", " ", text) for a character class
RECURSIVE SubClassBySpace(_, _)
SubClassBySpace(text, class) ==
  IF text = <<>> THEN <<>>
  ELSE <<IF Head(text) \in class THEN Space ELSE Head(text)>> \o SubClassBySpace(Tail(text), class)

\* re.sub(r" +", " ", text)
RECURSIVE CollapseSpaces(_)
CollapseSpaces(text) ==
  IF Len(text) < 2 THEN text
  ELSE IF text[1] = Space /\ text[2] = Space THEN CollapseSpaces(Tail(text))
  ELSE <<text[1]>> \o CollapseSpaces(Tail(text))

\* re.sub(r"\.\.\.", U+2026, text): leftmost, non-overlapping
RECURSIVE DotsToGlyph(_)
DotsToGlyph(text) ==
  IF text = <<>> THEN <<>>
  ELSE IF Len(text) >= 3 /\ SubSeq(text, 1, 3) = <<".", ".", ".">>
       THEN <<HEllipsis>> \o DotsToGlyph(SubSeq(text, 4, Len(text)))
  ELSE <<text[1]>> \o DotsToGlyph(Tail(text))

\* re.sub(U+2026, "...", text)
RECURSIVE GlyphToDots(_)
GlyphToDots(text) ==
  IF text = <<>> THEN <<>>
  ELSE (IF text[1] = HEllipsis THEN <<".", ".", ".">> ELSE <<text[1]>>) \o GlyphToDots(Tail(text))

PunctIn == {",", "!", "?", ".", ":", ";", "-"}
PunctGlued == {"!", "?", ".", ":", ";", "-"}
PunctExp == {HEllipsis, ",", "!", "?", ".", ":", ";", "-"}

\* re.sub(r"[!?.:;-]([^ ])", r" \1", text): leftmost, non-overlapping
RECURSIVE SplitGlued(_)
SplitGlued(text) ==
  IF Len(text) < 2 THEN text
  ELSE IF text[1] \in PunctGlued /\ text[2] # Space
       THEN <<Space, text[2]>> \o SplitGlued(SubSeq(text, 3, Len(text)))
  ELSE <<text[1]>> \o SplitGlued(Tail(text))

\* JsonToTsvConverter._normalize_text_in
normalize_text_in(text) == Strip(CollapseSpaces(SubClassBySpace(Lower(text), PunctIn)))

\* mutation of normalize_text_exp: the text is not lower-cased
normalize_text_exp_keep_case(text) ==
  Strip(GlyphToDots(CollapseSpaces(SubClassBySpace(SplitGlued(DotsToGlyph(text)), PunctExp))))

\* JsonToTsvConverter._normalize_text_exp
normalize_text_exp(text) ==
  Strip(GlyphToDots(CollapseSpaces(SubClassBySpace(SplitGlued(DotsToGlyph(Lower(text))), PunctExp))))

JsonInit ==
  /\ paths \in SeqsUpTo([stem : {JsonStem}, words : Documents], MaxDocs)
  /\ written = 0
  /\ text_intact = <<>>
  /\ out_in = <<>>
  /\ out_expected = <<>>
  /\ jpc = "run"
  /\ ChunkIdle /\ LabelIdle /\ TsvIdle /\ RouteIdle /\ SplitIdle /\ BreakIdle
  /\ LoadIdle

\* one iteration of the loop of _write_output, lines 148-151, with _load_json
WriteDocument ==
  /\ jpc = "run" /\ written < Len(paths)
  /\ LET path == paths[written + 1]
         texts == build_texts(path.words, Len(path.words))
         json_in == normalize_text_in(texts.tin)
         json_expected == normalize_text_exp(texts.texp)
     IN /\ text_intact' = texts.intact
        /\ out_in' = Append(out_in, path.stem \o <<Tab>> \o json_in)
        /\ out_expected' = Append(out_expected, json_expected)
  /\ written' = written + 1
  /\ UNCHANGED <<paths, jpc>>
  /\ UNCHANGED notJson

\* the files of the bucket are closed
WriteDone ==
  /\ jpc = "run" /\ written = Len(paths)
  /\ jpc' = "done"
  /\ UNCHANGED <<paths, written, text_intact, out_in, out_expected>>
  /\ UNCHANGED notJson

JsonNext ==
  \/ WriteDocument
  \/ WriteDone

SpecJson == JsonInit /\ [][JsonNext]_vars

\* ------------------------------------------------------------------------
\* Properties of the Text Normalizer
\* ------------------------------------------------------------------------

\* the text column of a line of {name}_in.tsv
InTextOf(line) == SubSeq(line, Len(JsonStem) + 2, Len(line))

\* C5 (as claimed): for every document written, the normalized input text and
\* the normalized expected text split on a single space into token sequences
\* of equal length.
C5_EqualTokenCounts ==
  \A k \in 1..Len(out_in) :
    Len(Split(InTextOf(out_in[k]), Space)) = Len(Split(out_expected[k], Space))

\* C12 (as claimed): a step of _write_output on a document whose normalized
\* input and normalized expected texts have different token counts writes no
\* line to {name}_in.tsv and no line to {name}_expected.tsv.
C12_UnequalDocumentSkipped ==
  [][ (jpc = "run" /\ written < Len(paths)) =>
        LET texts == build_texts(paths[written + 1].words, Len(paths[written + 1].words))
            json_in == normalize_text_in(texts.tin)
            json_expected == normalize_text_exp(texts.texp)
        IN Len(Split(json_in, Space)) # Len(Split(json_expected, Space)) =>
             (out_in' = out_in /\ out_expected' = out_expected)
    ]_vars

\* the document _write_output wrote last is the 3-token example
ExampleWritten == written >= 1 /\ paths[written].words = ExampleDocument

MaxManifest == 2      \* lines per manifest

\* document ids, one a prefix of the other (as wikinews22 is of wikinews228)
RouteStems == { <<"p">>, <<"p", "q">> }
\* self.data_paths: two directories, as in default_data_paths
DataDirs == << <<"w", "i", "k", "i", "n", "e", "w", "s">>, <<"w", "i", "k", "i", "t", "a", "l", "k", "s">> >>

\* sequences over S without repetition
DistinctSeqs(S) == {q \in SeqsUpTo(S, Cardinality(S)) : \A i, j \in 1..Len(q) : i # j => q[i] # q[j]}

PermsOf(n) == {f \in [1..n -> 1..n] : \A i, j \in 1..n : i # j => f[i] # f[j]}

\* membership in a Python list
InList(x, lst) == \E k \in 1..Len(lst) : lst[k] = x

\* the candidate files in the order the loops of lines 91-92 visit them:
\* a path is <<directory, stem>>
RECURSIVE CandidatesFrom(_, _)
CandidatesFrom(lst, d) ==
  IF d > Len(DataDirs) THEN <<>>
  ELSE [k \in 1..Len(lst[d]) |-> <<DataDirs[d], lst[d][k]>>] \o CandidatesFrom(lst, d + 1)

Candidates == CandidatesFrom(listing, 1)

\* path.stem
Stem(path) == path[2]

\* files of a listing that neither manifest names
RestCount(lst, trn, tst) ==
  Cardinality({k \in 1..Len(CandidatesFrom(lst, 1)) :
                 ~InList(Stem(CandidatesFrom(lst, 1)[k]), trn)
                 /\ ~InList(Stem(CandidatesFrom(lst, 1)[k]), tst)})

\* mutation of sort_paths: the bucket keeps the order of enumeration
sort_paths_unsorted(pths, wikipunct_text_ids) ==
  SelectSeq(pths, LAMBDA f : InList(Stem(f), wikipunct_text_ids))

\* JsonToTsvConverter._sort_paths
RECURSIVE sort_paths(_, _)
sort_paths(pths, wikipunct_text_ids) ==
  IF wikipunct_text_ids = <<>> THEN <<>>
  ELSE LET hits == {k \in 1..Len(pths) : Stem(pths[k]) = Head(wikipunct_text_ids)}
           first == IF hits = {} THEN <<>>
                    ELSE <<pths[CHOOSE k \in hits : \A j \in hits : k <= j]>>
       IN first \o sort_paths(pths, Tail(wikipunct_text_ids))

\* random.seed(0); random.shuffle(rest_paths)
Shuffled(lst, perm) == [k \in 1..Len(lst) |-> lst[perm[k]]]

RouteInit ==
  /\ train_names \in SeqsUpTo(RouteStems, MaxManifest)
  /\ test_names \in SeqsUpTo(RouteStems, MaxManifest)
  /\ listing \in [1..Len(DataDirs) -> DistinctSeqs(RouteStems)]
  /\ seed0_perm \in PermsOf(RestCount(listing, train_names, test_names))
  /\ scanned = 0
  /\ train_paths = <<>> /\ test_paths = <<>> /\ rest_paths = <<>>
  /\ first_rest = <<>>
  /\ second_run = FALSE
  /\ legacy_train_paths = <<>> /\ legacy_test_paths = <<>> /\ legacy_rest_paths = <<>>
  /\ legacy_done = FALSE
  /\ rpc = "scan"
  /\ ChunkIdle /\ LabelIdle /\ TsvIdle /\ JsonIdle /\ SplitIdle /\ BreakIdle
  /\ LoadIdle

\* one iteration of the loop of line 92: classify one candidate file
RouteFile ==
  /\ rpc = "scan" /\ scanned < Len(Candidates)
  /\ LET json_path == Candidates[scanned + 1]
         wikipunct_text_id == Stem(json_path)
     IN IF InList(wikipunct_text_id, train_names)
        THEN /\ train_paths' = Append(train_paths, json_path)
             /\ UNCHANGED <<test_paths, rest_paths>>
        ELSE IF InList(wikipunct_text_id, test_names)
        THEN /\ test_paths' = Append(test_paths, json_path)
             /\ UNCHANGED <<train_paths, rest_paths>>
        ELSE /\ rest_paths' = Append(rest_paths, json_path)
             /\ UNCHANGED <<train_paths, test_paths>>
  /\ scanned' = scanned + 1
  /\ UNCHANGED <<train_names, test_names, listing, seed0_perm, first_rest, second_run, rpc>>
  /\ UNCHANGED <<legacy_train_paths, legacy_test_paths, legacy_rest_paths, legacy_done>>
  /\ UNCHANGED notRoute

\* lines 101-107: order the train and test buckets, shuffle the rest, return
SortAndShuffle ==
  /\ rpc = "scan" /\ scanned = Len(Candidates)
  /\ train_paths' = sort_paths(train_paths, train_names)
  /\ test_paths' = sort_paths(test_paths, test_names)
  /\ rest_paths' = Shuffled(rest_paths, seed0_perm)
  /\ rpc' = "done"
  /\ UNCHANGED <<train_names, test_names, listing, seed0_perm, scanned, first_rest, second_run>>
  /\ UNCHANGED <<legacy_train_paths, legacy_test_paths, legacy_rest_paths, legacy_done>>
  /\ UNCHANGED notRoute

\* the listings path.glob can yield for the same directories: the same files
\* per directory, in any order
Reenumerations(lst) ==
  {l \in [1..Len(DataDirs) -> DistinctSeqs(RouteStems)] :
     \A d \in 1..Len(DataDirs) :
       /\ Len(l[d]) = Len(lst[d])
       /\ \A k \in 1..Len(lst[d]) : InList(lst[d][k], l[d])}

\* _get_json_paths is called again over the same manifests and directories
RunAgain ==
  /\ rpc = "done" /\ ~second_run
  /\ first_rest' = rest_paths
  /\ second_run' = TRUE
  /\ listing' \in Reenumerations(listing)
  /\ scanned' = 0
  /\ train_paths' = <<>> /\ test_paths' = <<>> /\ rest_paths' = <<>>
  /\ rpc' = "scan"
  /\ legacy_train_paths' = <<>> /\ legacy_test_paths' = <<>> /\ legacy_rest_paths' = <<>>
  /\ legacy_done' = FALSE
  /\ UNCHANGED <<train_names, test_names, seed0_perm>>
  /\ UNCHANGED notRoute

\* os.path.join(path, "*.json") as glob.glob expands it for one file
PathText(path) == path[1] \o <<"/">> \o path[2] \o <<".", "j", "s", "o", "n">>

\* os.path.basename(json_path).split(".")[0]
Basename(text) ==
  LET parts == Split(text, "/")
  IN Split(parts[Len(parts)], ".")[1]

\* legacy _sort_paths (parse_json2.py and parse_data.py): name in path
RECURSIVE legacy_sort_paths(_, _)
legacy_sort_paths(pths, names) ==
  IF names = <<>> THEN <<>>
  ELSE LET hits == {k \in 1..Len(pths) : Find(pths[k], Head(names), 0) >= 0}
           first == IF hits = {} THEN <<>>
                    ELSE <<pths[CHOOSE k \in hits : \A j \in hits : k <= j]>>
       IN first \o legacy_sort_paths(pths, Tail(names))

\* the legacy _get_json_paths over the same manifests, with glob.glob yielding
\* the files in the order of listing
LegacyGetJsonPaths ==
  /\ rpc = "done" /\ ~legacy_done
  /\ LET json_paths == [k \in 1..Len(Candidates) |-> PathText(Candidates[k])]
         in_train(t) == InList(Basename(t), train_names)
         in_test(t) == InList(Basename(t), test_names)
     IN /\ legacy_train_paths' =
             legacy_sort_paths(SelectSeq(json_paths, in_train), train_names)
        /\ legacy_test_paths' =
             legacy_sort_paths(SelectSeq(json_paths, LAMBDA t : ~in_train(t) /\ in_test(t)),
                               test_names)
        /\ legacy_rest_paths' =
             Shuffled(SelectSeq(json_paths, LAMBDA t : ~in_train(t) /\ ~in_test(t)), seed0_perm)
  /\ legacy_done' = TRUE
  /\ UNCHANGED <<train_names, test_names, listing, seed0_perm, scanned, train_paths,
                 test_paths, rest_paths, first_rest, second_run, rpc>>
  /\ UNCHANGED notRoute

RouteNext ==
  \/ RouteFile
  \/ SortAndShuffle
  \/ RunAgain
  \/ LegacyGetJsonPaths

SpecRoute == RouteInit /\ [][RouteNext]_vars

\* ------------------------------------------------------------------------
\* Properties of the Document Router
\* ------------------------------------------------------------------------

IdUnique(names) == \A i, j \in 1..Len(names) : i # j => names[i] # names[j]

Occurrences(x, lst) == Cardinality({k \in 1..Len(lst) : lst[k] = x})

\* C6 (as claimed): with ID-unique manifests, when the router has returned,
\* every candidate file is in exactly one of the three buckets, exactly once:
\* in train if its id is in the train manifest, else in test if its id is in
\* the test manifest, else in rest.
C6_RoutingIsPartition ==
  (rpc = "done" /\ IdUnique(train_names) /\ IdUnique(test_names)) =>
    \A k \in 1..Len(Candidates) :
      LET f == Candidates[k]
      IN /\ Occurrences(f, train_paths) + Occurrences(f, test_paths)
              + Occurrences(f, rest_paths) = 1
         /\ InList(Stem(f), train_names) => InList(f, train_paths)
         /\ (~InList(Stem(f), train_names) /\ InList(Stem(f), test_names))
              => InList(f, test_paths)
         /\ (~InList(Stem(f), train_names) /\ ~InList(Stem(f), test_names))
              => InList(f, rest_paths)

\* C14: with ID-unique manifests, when the router has returned, any two
\* documents of the train bucket (and of the test bucket) stand in the order
\* of their ids in the train (test) manifest, whatever order the candidate
\* files were enumerated in.
C14_BucketsInManifestOrder ==
  (rpc = "done" /\ IdUnique(train_names) /\ IdUnique(test_names)) =>
    LET PosIn(names, f) == CHOOSE k \in 1..Len(names) : names[k] = Stem(f)
        Ordered(bucket, names) ==
          /\ \A k \in 1..Len(bucket) : InList(Stem(bucket[k]), names)
          /\ \A i, j \in 1..Len(bucket) :
               i < j => PosIn(names, bucket[i]) < PosIn(names, bucket[j])
    IN Ordered(train_paths, train_names) /\ Ordered(test_paths, test_names)

\* the files were enumerated p, pq and the train manifest lists pq, p: the
\* returned train bucket is pq, p
C14_Witness ==
  /\ rpc = "done"
  /\ train_names = << <<"p", "q">>, <<"p">> >> /\ test_names = <<>>
  /\ listing = << << <<"p">>, <<"p", "q">> >>, <<>> >>
  /\ train_paths = << <<DataDirs[1], <<"p", "q">> >>, <<DataDirs[1], <<"p">> >> >>

\* C15 (as claimed): when a second run of _get_json_paths over the same
\* manifests and the same set of candidate documents has returned, its rest
\* bucket is the rest bucket of the first run, in the same order.
C15_RestOrderReproducible ==
  (rpc = "done" /\ second_run) => rest_paths = first_rest

\* C21 (as claimed): with ID-unique manifests, when the canonical and the
\* legacy router have both returned for the same manifests and the same
\* enumeration of the candidate files, the legacy train bucket names the same
\* files in the same order as the canonical train bucket, and likewise the
\* test buckets.
C21_LegacyRouterAgrees ==
  (rpc = "done" /\ legacy_done /\ IdUnique(train_names) /\ IdUnique(test_names)) =>
    /\ legacy_train_paths = [k \in 1..Len(train_paths) |-> PathText(train_paths[k])]
    /\ legacy_test_paths = [k \in 1..Len(test_paths) |-> PathText(test_paths[k])]

\* ========================================================================
\* Dataset Splitter: DataFrameSplitter.run
\* ========================================================================

MaxConllLines == 4    \* lines of the input .conll file
ExampleSentences == 8 \* sentences of the larger example file
TieSentences == 3     \* sentences of the smaller example file

\* src/converters/pandas_converter.py lines 13-14, as fractions
TRAIN_TO_TEST_DEV_RATIO == <<4, 5>>
DEV_TO_TEST_RATIO == <<1, 2>>

DocStart == <<"-", "D", "O", "C", "S", "T", "A", "R", "T", "-">>

\* the lines tried: word<TAB>label, word<TAB>label<TAB>pause, a blank line,
\* a -DOCSTART- line and a line with a single field
ConllLineChoices ==
  { <<"a", Tab, "B">>, <<"b", Tab, ".", Tab, "5">>, <<>>, DocStart, <<"a">> }

\* a file of ExampleSentences sentences, each closed by a blank line; the
\* first has two tokens, the others one
ExampleConll ==
  << <<"b", Tab, ".">> >> \o
  [k \in 1..(2 * ExampleSentences) |->
     IF k % 2 = 1 THEN (IF k % 4 = 1 THEN <<"a", Tab, "B">> ELSE <<"b", Tab, ".", Tab, "5">>)
     ELSE <<>>]

\* a file of TieSentences one-token sentences: after the train part is taken,
\* an odd number of sentences is left to halve
TieConll ==
  [k \in 1..(2 * TieSentences) |-> IF k % 2 = 1 THEN <<"a", Tab, "B">> ELSE <<>>]

\* str.startswith
StartsWith(s, prefix) == Len(s) >= Len(prefix) /\ SubSeq(s, 1, Len(prefix)) = prefix

\* TsvFileData.append_next_lists
append_next_lists(fd) == Append(fd, <<>>)

\* TsvFileData.append
append_token(fd, word, tag, space) ==
  [fd EXCEPT ![Len(fd)] = Append(fd[Len(fd)], <<word, tag, space>>)]

\* lines 97-100: drop the last list when it is empty
DropEmptyLast(fd) == IF fd[Len(fd)] = <<>> THEN SubSeq(fd, 1, Len(fd) - 1) ELSE fd

\* TsvFileData.to_data_frame: sentence ids are the 0-based positions of the lists
RECURSIVE to_data_frame(_, _)
to_data_frame(fd, k) ==
  IF k = 0 THEN <<>>
  ELSE to_data_frame(fd, k - 1)
         \o [j \in 1..Len(fd[k]) |-> <<fd[k][j][1], fd[k][j][2], fd[k][j][3], k - 1>>]

\* data.sentence_id.unique().tolist(), as a set
UniqueIds(rows) == {rows[k][4] : k \in 1..Len(rows)}

\* mutation of RoundHalfEven: halves are rounded up
RoundHalfUp(num, den) == (2 * num + den) \div (2 * den)

\* Python round() of num/den >= 0: half to even
RoundHalfEven(num, den) ==
  LET q == num \div den
      r == num % den
  IN IF 2 * r < den THEN q
     ELSE IF 2 * r > den THEN q + 1
     ELSE IF q % 2 = 0 THEN q ELSE q + 1

\* round(len(sentence_ids) * train_prop)
TrainCount(n, prop) == RoundHalfEven(n * prop[1], prop[2])

\* random.sample(sentence_ids, train_count): any train_count distinct ids
Samples(ids, k) == {S \in SUBSET ids : Cardinality(S) = k}

\* random.sample with the generator in the state draws describes: the
\* generator is deterministic, so a call that repeats, after the same seed and
\* the same earlier calls, a call of the first execution returns what that
\* call returned; any other call returns some k distinct ids
RandomSample(ids, k) ==
  IF /\ Len(draws) < Len(first_draws)
     /\ SubSeq(first_draws, 1, Len(draws)) = draws
     /\ first_draws[Len(draws) + 1][1] = ids
     /\ first_draws[Len(draws) + 1][2] = k
  THEN {first_draws[Len(draws) + 1][3]}
  ELSE Samples(ids, k)

\* data.loc[data.sentence_id.isin(train_ids)]
RowsIn(rows, ids) == SelectSeq(rows, LAMBDA r : r[4] \in ids)

\* mutation of RowsNotIn: the negation is lost
RowsNotInUnnegated(rows, ids) == SelectSeq(rows, LAMBDA r : r[4] \in ids)

\* data.loc[~data.sentence_id.isin(train_ids)]
RowsNotIn(rows, ids) == SelectSeq(rows, LAMBDA r : r[4] \notin ids)

\* what the Label Aligner is given for one token: the input token and the
\* expected token; the input tokens are non-empty, hold no whitespace and do
\* not start with -DOCSTART-
AlignedPairs ==
  { << <<"a">>, <<"a">> >>, << <<"b">>, <<"b", ".">> >>, << <<"a">>, <<"a", Tab>> >> }

\* a sentence is a line pair of 1..MaxTokens tokens, a document 1..MaxLines
\* sentences
AlignedDocs ==
  {d \in SeqsUpTo({t \in SeqsUpTo(AlignedPairs, MaxTokens) : t # <<>>}, MaxLines) : d # <<>>}

\* the pause written for the k-th token of a line when pauses are written
AlignedBreaks(sent) == [k \in 1..Len(sent) |-> k - 2]

\* TsvParser.convert, lines 56-66, over the line pairs of a document: the token
\* lines of each sentence, then one blank line
RECURSIVE WrittenConll(_, _)
WrittenConll(doc, with_fa) ==
  IF doc = <<>> THEN <<>>
  ELSE ConllLines([k \in 1..Len(Head(doc)) |-> Head(doc)[k][1]],
                  [k \in 1..Len(Head(doc)) |-> Head(doc)[k][2]],
                  with_fa, AlignedBreaks(Head(doc)))
         \o << <<>> >> \o WrittenConll(Tail(doc), with_fa)

SplitInit ==
  /\ \/ conll_file \in SeqsUpTo(ConllLineChoices, MaxConllLines)
     \/ conll_file = ExampleConll
     \/ conll_file = TieConll
     \/ \E doc \in AlignedDocs, with_fa \in BOOLEAN :
          conll_file \in {WrittenConll(doc, with_fa), <<DocStart>> \o WrittenConll(doc, with_fa)}
  /\ split_to_files \in BOOLEAN
  /\ read_pos = 0
  /\ file_data = << <<>> >>
  /\ df = <<>>
  /\ train_data = <<>> /\ dev_test_data = <<>> /\ dev_data = <<>> /\ test_data = <<>>
  /\ saved = <<>>
  /\ draws = <<>>
  /\ first_draws = <<>> /\ first_split = <<>> /\ second_exec = FALSE
  /\ spc = "read"
  /\ ChunkIdle /\ LabelIdle /\ TsvIdle /\ JsonIdle /\ RouteIdle /\ BreakIdle
  /\ LoadIdle

\* _read_line on a -DOCSTART- line: nothing
ReadDocStart ==
  /\ spc = "read" /\ read_pos < Len(conll_file)
  /\ StartsWith(conll_file[read_pos + 1], DocStart)
  /\ read_pos' = read_pos + 1
  /\ UNCHANGED <<conll_file, split_to_files, file_data, df, train_data, dev_test_data,
                 dev_data, test_data, saved, spc>>
  /\ UNCHANGED <<draws, first_draws, first_split, second_exec>>
  /\ UNCHANGED notSplit

\* _read_line on a blank line: a new sentence starts
ReadBlank ==
  /\ spc = "read" /\ read_pos < Len(conll_file)
  /\ ~StartsWith(conll_file[read_pos + 1], DocStart)
  /\ Strip(conll_file[read_pos + 1]) = <<>>
  /\ file_data' = append_next_lists(file_data)
  /\ read_pos' = read_pos + 1
  /\ UNCHANGED <<conll_file, split_to_files, df, train_data, dev_test_data,
                 dev_data, test_data, saved, spc>>
  /\ UNCHANGED <<draws, first_draws, first_split, second_exec>>
  /\ UNCHANGED notSplit

\* _read_line on a token line of three fields, or of two (space = " ")
ReadToken ==
  /\ spc = "read" /\ read_pos < Len(conll_file)
  /\ ~StartsWith(conll_file[read_pos + 1], DocStart)
  /\ Strip(conll_file[read_pos + 1]) # <<>>
  /\ LET fields == Split(Strip(conll_file[read_pos + 1]), Tab)
     IN /\ Len(fields) \in {2, 3}
        /\ file_data' = append_token(file_data, fields[1], fields[2],
                                     IF Len(fields) = 3 THEN fields[3] ELSE <<Space>>)
  /\ read_pos' = read_pos + 1
  /\ UNCHANGED <<conll_file, split_to_files, df, train_data, dev_test_data,
                 dev_data, test_data, saved, spc>>
  /\ UNCHANGED <<draws, first_draws, first_split, second_exec>>
  /\ UNCHANGED notSplit

\* _read_line on a line of one field or of more than three: ValueError
ReadRaises ==
  /\ spc = "read" /\ read_pos < Len(conll_file)
  /\ ~StartsWith(conll_file[read_pos + 1], DocStart)
  /\ Strip(conll_file[read_pos + 1]) # <<>>
  /\ Len(Split(Strip(conll_file[read_pos + 1]), Tab)) \notin {2, 3}
  /\ spc' = "crashed"
  /\ read_pos' = read_pos + 1
  /\ UNCHANGED <<conll_file, split_to_files, file_data, df, train_data, dev_test_data,
                 dev_data, test_data, saved>>
  /\ UNCHANGED <<draws, first_draws, first_split, second_exec>>
  /\ UNCHANGED notSplit

\* the end of _process_file, lines 97-102
FinishProcessFile ==
  /\ spc = "read" /\ read_pos = Len(conll_file)
  /\ file_data' = DropEmptyLast(file_data)
  /\ df' = to_data_frame(DropEmptyLast(file_data), Len(DropEmptyLast(file_data)))
  /\ spc' = "loaded"
  /\ UNCHANGED <<conll_file, split_to_files, read_pos, train_data, dev_test_data,
                 dev_data, test_data, saved>>
  /\ UNCHANGED <<draws, first_draws, first_split, second_exec>>
  /\ UNCHANGED notSplit

\* run without split_to_files: line 84
SaveWhole ==
  /\ spc = "loaded" /\ ~split_to_files
  /\ saved' = Append(saved, <<"", df>>)
  /\ spc' = "done"
  /\ UNCHANGED <<conll_file, split_to_files, read_pos, file_data, df, train_data,
                 dev_test_data, dev_data, test_data>>
  /\ UNCHANGED <<draws, first_draws, first_split, second_exec>>
  /\ UNCHANGED notSplit

\* a DataFrame built from no rows has no sentence_id column: AttributeError
SplitRaises ==
  /\ spc = "loaded" /\ split_to_files
  /\ df = <<>>
  /\ spc' = "crashed"
  /\ UNCHANGED <<conll_file, split_to_files, read_pos, file_data, df, train_data,
                 dev_test_data, dev_data, test_data, saved>>
  /\ UNCHANGED <<draws, first_draws, first_split, second_exec>>
  /\ UNCHANGED notSplit

\* lines 73-75: train against the rest
SplitTrain ==
  /\ spc = "loaded" /\ split_to_files
  /\ df # <<>>
  /\ LET train_count == TrainCount(Cardinality(UniqueIds(df)), TRAIN_TO_TEST_DEV_RATIO)
     IN \E train_ids \in RandomSample(UniqueIds(df), train_count) :
          /\ train_data' = RowsIn(df, train_ids)
          /\ dev_test_data' = RowsNotIn(df, train_ids)
          /\ draws' = Append(draws, <<UniqueIds(df), train_count, train_ids>>)
  /\ spc' = "split1"
  /\ UNCHANGED <<conll_file, split_to_files, read_pos, file_data, df, dev_data, test_data,
                 saved>>
  /\ UNCHANGED <<first_draws, first_split, second_exec>>
  /\ UNCHANGED notSplit

\* lines 76-78: dev against test, on the rest
SplitDev ==
  /\ spc = "split1"
  /\ LET train_count == TrainCount(Cardinality(UniqueIds(dev_test_data)), DEV_TO_TEST_RATIO)
     IN \E dev_ids \in RandomSample(UniqueIds(dev_test_data), train_count) :
          /\ dev_data' = RowsIn(dev_test_data, dev_ids)
          /\ test_data' = RowsNotIn(dev_test_data, dev_ids)
          /\ draws' = Append(draws, <<UniqueIds(dev_test_data), train_count, dev_ids>>)
  /\ spc' = "split2"
  /\ UNCHANGED <<conll_file, split_to_files, read_pos, file_data, df, train_data,
                 dev_test_data, saved>>
  /\ UNCHANGED <<first_draws, first_split, second_exec>>
  /\ UNCHANGED notSplit

\* lines 80-82: the three files
SaveSplits ==
  /\ spc = "split2"
  /\ saved' = saved \o << <<"train", train_data>>, <<"dev", dev_data>>, <<"test", test_data>> >>
  /\ spc' = "done"
  /\ UNCHANGED <<conll_file, split_to_files, read_pos, file_data, df, train_data,
                 dev_test_data, dev_data, test_data>>
  /\ UNCHANGED <<draws, first_draws, first_split, second_exec>>
  /\ UNCHANGED notSplit

\* the state run() starts from in a splitter whose run() has not been called
FreshSplitter ==
  /\ read_pos' = 0
  /\ file_data' = << <<>> >>
  /\ df' = <<>>
  /\ train_data' = <<>> /\ dev_test_data' = <<>> /\ dev_data' = <<>> /\ test_data' = <<>>
  /\ saved' = <<>>
  /\ first_draws' = draws
  /\ first_split' = <<UniqueIds(train_data), UniqueIds(dev_data), UniqueIds(test_data)>>
  /\ second_exec' = TRUE
  /\ spc' = "read"
  /\ UNCHANGED <<conll_file, split_to_files>>
  /\ UNCHANGED notSplit

\* a second splitter for the same file is constructed (lines 58-64 seed the
\* generator) and its run() is called at once
RunNewSplitter ==
  /\ spc = "done" /\ split_to_files /\ ~second_exec
  /\ draws' = <<>>
  /\ FreshSplitter

\* run() is called on a second splitter for the same file that was constructed
\* before the first run(): nothing seeds the generator between the two runs
RunEarlierSplitter ==
  /\ spc = "done" /\ split_to_files /\ ~second_exec
  /\ draws' = draws
  /\ FreshSplitter

SplitNext ==
  \/ ReadDocStart
  \/ ReadBlank
  \/ ReadToken
  \/ ReadRaises
  \/ FinishProcessFile
  \/ SaveWhole
  \/ SplitRaises
  \/ SplitTrain
  \/ SplitDev
  \/ SaveSplits
  \/ RunNewSplitter
  \/ RunEarlierSplitter

SpecSplit == SplitInit /\ [][SplitNext]_vars

\* ------------------------------------------------------------------------
\* Properties of the Dataset Splitter
\* ------------------------------------------------------------------------

\* the three files run() wrote
SavedPart(name) == (CHOOSE f \in {saved[k] : k \in 1..Len(saved)} : f[1] = name)[2]

\* C7: when run() has written the three files, their sentence-id sets are
\* pairwise disjoint and together are all sentence ids of the input, and each
\* file holds, for each of its sentence ids, exactly the rows the input has
\* for that sentence, in order (no sentence is spread over two parts).
C7_SplitIsPartition ==
  (spc = "done" /\ split_to_files) =>
    LET tr == SavedPart("train")
        dv == SavedPart("dev")
        te == SavedPart("test")
    IN /\ UniqueIds(tr) \cap UniqueIds(dv) = {}
       /\ UniqueIds(tr) \cap UniqueIds(te) = {}
       /\ UniqueIds(dv) \cap UniqueIds(te) = {}
       /\ UniqueIds(tr) \cup UniqueIds(dv) \cup UniqueIds(te) = UniqueIds(df)
       /\ Len(tr) + Len(dv) + Len(te) = Len(df)
       /\ \A sid \in UniqueIds(df) :
            \A part \in {tr, dv, te} :
              sid \in UniqueIds(part) => RowsOf(part, sid) = RowsOf(df, sid)

\* a finished three-way split in which every part has a sentence and the
\* two-row sentence went to the dev part
C7_Witness ==
  /\ spc = "done" /\ split_to_files
  /\ SavedPart("train") # <<>> /\ SavedPart("dev") # <<>> /\ SavedPart("test") # <<>>
  /\ \E sid \in UniqueIds(df) :
       Len(RowsOf(df, sid)) >= 2 /\ sid \in UniqueIds(SavedPart("dev"))

\* C18: with n the number of distinct sentence ids of the input, the train
\* part has round(0.8 * n) sentence ids and the rest n - round(0.8 * n); with m
\* the number left, the dev part has round(0.5 * m) and the test part
\* m - round(0.5 * m). round(x) is the integer nearest to x, the even one of
\* the two when x is halfway, so each size is within 1/2 of its ratio.
C18_SizesAreRounded ==
  LET Count(rows) == Cardinality(UniqueIds(rows))
      Dist(r, num, den) == IF r * den >= num THEN r * den - num ELSE num - r * den
      IsRound(r, num, den) ==
        /\ 2 * Dist(r, num, den) <= den
        /\ (2 * Dist(r, num, den) = den) => r % 2 = 0
      n == Count(df)
      m == Count(dev_test_data)
  IN /\ spc \in {"split1", "split2", "done"} /\ split_to_files =>
          /\ IsRound(Count(train_data), 4 * n, 5)
          /\ m = n - Count(train_data)
     /\ spc \in {"split2", "done"} /\ split_to_files =>
          /\ IsRound(Count(dev_data), m, 2)
          /\ Count(test_data) = m - Count(dev_data)

\* the file of three sentences has been split: 2 for train, and of the one
\* left round(0.5) = 0 for dev and 1 for test
C18_Witness ==
  /\ spc = "done" /\ split_to_files /\ conll_file = TieConll
  /\ Cardinality(UniqueIds(df)) = 3
  /\ Cardinality(UniqueIds(SavedPart("train"))) = 2
  /\ SavedPart("dev") = <<>>
  /\ Cardinality(UniqueIds(SavedPart("test"))) = 1

\* C16 (as claimed): when a second execution of run() with split_to_files over
\* the same input file has finished, its train, dev and test sentence-id sets
\* are those of the first execution.
C16_RunsAreIdentical ==
  (spc = "done" /\ split_to_files /\ second_exec) =>
    <<UniqueIds(train_data), UniqueIds(dev_data), UniqueIds(test_data)>> = first_split

\* the rows _process_file must return for a document the Label Aligner wrote:
\* per sentence, in order, the word and the label of each token line, the
\* pause when one was written, and the 0-based position of the sentence
RECURSIVE RowsWritten(_, _, _)
RowsWritten(doc, with_fa, k) ==
  IF k = 0 THEN <<>>
  ELSE RowsWritten(doc, with_fa, k - 1)
         \o [j \in 1..Len(doc[k]) |->
              <<doc[k][j][1],
                determine_label(doc[k][j][1], Lower(doc[k][j][2])).label,
                IF with_fa THEN IntStr(AlignedBreaks(doc[k])[j]) ELSE <<Space>>,
                k - 1>>]

\* C22 (as claimed): when the file read is what the Label Aligner writes for
\* n >= 1 sentences of non-empty words without whitespace, with or without a
\* leading -DOCSTART- line, _process_file does not raise and returns exactly
\* the written words, labels and pauses, in order, under sentence ids 0..n-1.
C22_ConllRoundTrip ==
  \A doc \in AlignedDocs : \A with_fa \in BOOLEAN :
    conll_file \in {WrittenConll(doc, with_fa), <<DocStart>> \o WrittenConll(doc, with_fa)} =>
      /\ spc # "crashed"
      /\ spc = "loaded" => df = RowsWritten(doc, with_fa, Len(doc))

\* ========================================================================
\* Trainer input: NERTrainer.load_data
\* ========================================================================

MaxCsvRows == 2       \* rows of a file given to load_data

\* the value pandas stores for a missing field
NaN == <<"NaN (float)">>

\* the rows tried: a word and a word pandas reads as missing, a label of the
\* alphabet and one outside it, two sentence ids
CsvRows ==
  {<<w, l, <<Space>>, id>> : w \in {<<"a">>, <<"N", "A">>}, l \in {<<"B">>, <<"s">>},
                             id \in {0, 1}}

\* pd.read_csv(path, sep="\t", header=0): one row per line after the header; a
\* field that spells a missing value is read as NaN
read_csv(file) ==
  LET field(f) == IF f = <<"N", "A">> THEN NaN ELSE f
  IN [k \in 1..Len(file) |-> <<field(file[k][1]), field(file[k][2]), file[k][3], file[k][4]>>]

\* mutation of sentences_to_delete: the negation of isin is lost
sentences_to_delete_unnegated(frame) ==
  {frame[k][4] : k \in {j \in 1..Len(frame) : frame[j][2] \in LabelList}}

\* data[~data.labels.isin(self.labels)].sentence_id
sentences_to_delete(frame) ==
  {frame[k][4] : k \in {j \in 1..Len(frame) : frame[j][2] \notin LabelList}}

LoadInit ==
  /\ train_csv \in SeqsUpTo(CsvRows, MaxCsvRows)
  /\ eval_csv \in SeqsUpTo(CsvRows, MaxCsvRows)
  /\ ner_train_data = <<>> /\ ner_eval_data = <<>>
  /\ npc = "start"
  /\ ChunkIdle /\ LabelIdle /\ TsvIdle /\ JsonIdle /\ RouteIdle /\ SplitIdle /\ BreakIdle

\* load_data, lines 90-102
LoadData ==
  /\ npc = "start"
  /\ LET train_read == read_csv(train_csv)
         eval_read == read_csv(eval_csv)
     IN /\ ner_train_data' = RowsNotIn(train_read, sentences_to_delete(train_read))
        /\ ner_eval_data' = RowsNotIn(eval_read, sentences_to_delete(eval_read))
  /\ npc' = "returned"
  /\ UNCHANGED <<train_csv, eval_csv>>
  /\ UNCHANGED notLoad

LoadNext == LoadData

SpecLoad == LoadInit /\ [][LoadNext]_vars

\* the rows of the table read from file whose sentence has only labels of the
\* alphabet, in the order of the table
RowsOfCleanSentences(file) ==
  LET frame == read_csv(file)
      clean(id) == \A k \in 1..Len(frame) : frame[k][4] = id => frame[k][2] \in LabelList
  IN SelectSeq(frame, LAMBDA r : clean(r[4]))

\* C23: load_data returns, for the train file and for the eval file each on its
\* own, exactly the rows read whose sentence_id has every row labelled within
\* Label.list(), unchanged and in order: a sentence with one label outside the
\* alphabet loses all its rows, every other sentence keeps all of them.
C23_WholeSentencesRemoved ==
  npc = "returned" =>
    /\ ner_train_data = RowsOfCleanSentences(train_csv)
    /\ ner_eval_data = RowsOfCleanSentences(eval_csv)

\* a train sentence with a label of the alphabet and one outside it is removed
\* whole while the eval file, without such a label, is returned as read
C23_Witness ==
  /\ npc = "returned"
  /\ train_csv = << <<<<"a">>, <<"B">>, <<Space>>, 0>>, <<<<"a">>, <<"s">>, <<Space>>, 0>> >>
  /\ ner_train_data = <<>>
  /\ eval_csv = << <<<<"a">>, <<"B">>, <<Space>>, 0>>, <<<<"a">>, <<"B">>, <<Space>>, 1>> >>
  /\ ner_eval_data = eval_csv

============================================================================
